---- MODULE Spec2Model ----
(***************************************************************************)
(* colorama: the trait Colored implemented for String (src/src/lib.rs).    *)
(*                                                                         *)
(* A String is a sequence of characters.  Every character is a one-letter  *)
(* TLA+ string, except the escape character 0x1b, written ESC.             *)
(* The state is the String `s` the calls mutate in place, together with    *)
(* what a test keeps beside it: the text the String was built from, the    *)
(* contents before the last call, and the calls made so far.               *)
(***************************************************************************)
EXTENDS Integers, Sequences, FiniteSets

VARIABLES
    s,      \* the String the methods are called on (&mut self)
    orig,   \* the text the String was built from, String::from(..)
    prev,   \* the String's contents before the last call
    hist    \* the calls made so far, in order

vars == <<s, orig, prev, hist>>

\* ------------------------------------------------------------------ bounds
MaxTextLen == 2
MaxCalls == 1
MaxChain == 3

\* -------------------------------------------------------------- characters
ESC == "ESC"

Alphabet == {"c", ESC}

RECURSIVE SeqsUpTo(_, _)
SeqsUpTo(S, n) ==
    IF n = 0 THEN {<<>>}
    ELSE LET shorter == SeqsUpTo(S, n - 1)
         IN  shorter \cup {Append(t, x) : t \in shorter, x \in S}

\* String::from("colorama") of the tests and the doc examples.
Colorama == <<"c", "o", "l", "o", "r", "a", "m", "a">>

\* A text that holds escape codes already: the methods do not parse them.
Decorated == <<ESC, "[", "3", "1", "m", "c", ESC, "[", "0", "m">>

Texts == SeqsUpTo(Alphabet, MaxTextLen) \cup {Colorama, Decorated}

\* ------------------------------------------------------------------ Option
Some(x) == [some |-> TRUE, val |-> x]
None == [some |-> FALSE, val |-> <<>>]

\* ------------------------------------------------------------- the tables
map_color(color) ==
    CASE color = "normal" -> Some(<<ESC, "[", "0", "m">>)
      [] color = "black" -> Some(<<ESC, "[", "3", "0", "m">>)
      [] color = "red" -> Some(<<ESC, "[", "3", "1", "m">>)
      [] color = "green" -> Some(<<ESC, "[", "3", "2", "m">>)
      [] color = "yellow" -> Some(<<ESC, "[", "3", "3", "m">>)
      [] color = "blue" -> Some(<<ESC, "[", "3", "4", "m">>)
      [] color = "magenta" -> Some(<<ESC, "[", "3", "5", "m">>)
      [] color = "cyan" -> Some(<<ESC, "[", "3", "6", "m">>)
      [] color = "white" -> Some(<<ESC, "[", "3", "7", "m">>)
      [] color = "bright black" -> Some(<<ESC, "[", "9", "0", "m">>)
      [] color = "bright red" -> Some(<<ESC, "[", "9", "1", "m">>)
      [] color = "bright green" -> Some(<<ESC, "[", "9", "2", "m">>)
      [] color = "bright yellow" -> Some(<<ESC, "[", "9", "3", "m">>)
      [] color = "bright blue" -> Some(<<ESC, "[", "9", "4", "m">>)
      [] color = "bright magenta" -> Some(<<ESC, "[", "9", "5", "m">>)
      [] color = "bright cyan" -> Some(<<ESC, "[", "9", "6", "m">>)
      [] color = "bright white" -> Some(<<ESC, "[", "9", "7", "m">>)
      [] OTHER -> None

map_background(background) ==
    CASE background = "normal" -> Some(<<ESC, "[", "0", "m">>)
      [] background = "black" -> Some(<<ESC, "[", "4", "0", "m">>)
      [] background = "red" -> Some(<<ESC, "[", "4", "1", "m">>)
      [] background = "green" -> Some(<<ESC, "[", "4", "2", "m">>)
      [] background = "yellow" -> Some(<<ESC, "[", "4", "3", "m">>)
      [] background = "blue" -> Some(<<ESC, "[", "4", "4", "m">>)
      [] background = "magenta" -> Some(<<ESC, "[", "4", "5", "m">>)
      [] background = "cyan" -> Some(<<ESC, "[", "4", "6", "m">>)
      [] background = "white" -> Some(<<ESC, "[", "4", "7", "m">>)
      [] background = "bright black" -> Some(<<ESC, "[", "1", "0", "0", "m">>)
      [] background = "bright red" -> Some(<<ESC, "[", "1", "0", "1", "m">>)
      [] background = "bright green" -> Some(<<ESC, "[", "1", "0", "2", "m">>)
      [] background = "bright yellow" -> Some(<<ESC, "[", "1", "0", "3", "m">>)
      [] background = "bright blue" -> Some(<<ESC, "[", "1", "0", "4", "m">>)
      [] background = "bright magenta" -> Some(<<ESC, "[", "1", "0", "5", "m">>)
      [] background = "bright cyan" -> Some(<<ESC, "[", "1", "0", "6", "m">>)
      [] background = "bright white" -> Some(<<ESC, "[", "1", "0", "7", "m">>)
      [] OTHER -> None

\* Slip: the "m" that ends the code for bold is missing.
map_style_unterminated(style) ==
    CASE style = "normal" -> Some(<<ESC, "[", "0", "m">>)
      [] style = "bold" -> Some(<<ESC, "[", "1">>)
      [] style = "faint" -> Some(<<ESC, "[", "2", "m">>)
      [] style = "italic" -> Some(<<ESC, "[", "3", "m">>)
      [] style = "underline" -> Some(<<ESC, "[", "4", "m">>)
      [] OTHER -> None

map_style(style) ==
    CASE style = "normal" -> Some(<<ESC, "[", "0", "m">>)
      [] style = "bold" -> Some(<<ESC, "[", "1", "m">>)
      [] style = "faint" -> Some(<<ESC, "[", "2", "m">>)
      [] style = "italic" -> Some(<<ESC, "[", "3", "m">>)
      [] style = "underline" -> Some(<<ESC, "[", "4", "m">>)
      [] OTHER -> None

\* ------------------------------------------------------- String operations
\* Slip: the string goes to the end, whatever idx is.
insert_str_at_end(str, idx, string) == str \o string

\* String::insert_str(idx, string): idx counts the characters before the
\* insertion point.
insert_str(str, idx, string) ==
    SubSeq(str, 1, idx) \o string \o SubSeq(str, idx + 1, Len(str))

\* String::push_str(string)
push_str(str, string) == str \o string

\* Slip: no second reset for a String that already ends with one.
wrap_one_reset(str, code) ==
    LET inner == insert_str(str, 0, code)
        n == Len(str)
    IN  IF n >= 4 /\ SubSeq(str, n - 3, n) = <<ESC, "[", "0", "m">>
        THEN inner
        ELSE push_str(inner, <<ESC, "[", "0", "m">>)

\* The closure given to Option::map in color, background and style: insert
\* the code at position 0, then push the reset.
wrap(str, code) == push_str(insert_str(str, 0, code), <<ESC, "[", "0", "m">>)

\* Slip: the reset is pushed on None as well.
apply_reset_always(str, opt) ==
    IF opt.some THEN wrap(str, opt.val) ELSE push_str(str, <<ESC, "[", "0", "m">>)

\* Slip: a String that already starts with an escape code is left alone.
apply_undecorated_only(str, opt) ==
    IF opt.some /\ (str = <<>> \/ str[1] # ESC) THEN wrap(str, opt.val) ELSE str

\* Option::map(f) on the resolver's answer, seen by its effect on the String:
\* the closure runs on Some, nothing runs on None.
apply(str, opt) == IF opt.some THEN wrap(str, opt.val) ELSE str

\* ----------------------------------------------------- the names callers pass
ColorNames ==
    {"normal", "black", "red", "green", "yellow", "blue", "magenta", "cyan",
     "white", "bright black", "bright red", "bright green", "bright yellow",
     "bright blue", "bright magenta", "bright cyan", "bright white"}

StyleNames == {"normal", "bold", "faint", "italic", "underline"}

UnknownNames == {"unknown", "", "RED", "Bold", "bright", "bright  red"}

Names == ColorNames \cup StyleNames \cup UnknownNames

ChainNames == {"normal", "red", "green", "bright black", "bold", "unknown"}

\* ------------------------------------------------------------------ state
Call(op, name) == [op |-> op, name |-> name]

Init ==
    /\ s \in Texts
    /\ orig = s
    /\ prev = s
    /\ hist = <<>>

\* What a caller observes beside the String: its contents before the call and
\* the call itself.
Observe(op, name) ==
    /\ prev' = s
    /\ hist' = Append(hist, Call(op, name))
    /\ UNCHANGED orig

\* Slip: color looks the name up in the background table.
color_by_background_table(color_name) ==
    /\ s' = apply(s, map_background(color_name))
    /\ Observe("color", color_name)

\* Slip: color unwraps the resolver's answer, so it has no outcome on None.
color_unwrap(color_name) ==
    /\ map_color(color_name).some
    /\ s' = wrap(s, map_color(color_name).val)
    /\ Observe("color", color_name)

color(color_name) ==
    /\ s' = apply(s, map_color(color_name))
    /\ Observe("color", color_name)

\* Slip: background looks the name up in the colour table.
background_by_color_table(background_name) ==
    /\ s' = apply(s, map_color(background_name))
    /\ Observe("background", background_name)

background(background_name) ==
    /\ s' = apply(s, map_background(background_name))
    /\ Observe("background", background_name)

\* Slip: style inserts the code and pushes no reset.
style_no_reset(style_name) ==
    /\ s' = IF map_style(style_name).some
            THEN insert_str(s, 0, map_style(style_name).val)
            ELSE s
    /\ Observe("style", style_name)

\* Slip: style falls back on the colour table for a name it does not know.
style_or_color(style_name) ==
    /\ s' = IF map_style(style_name).some
            THEN apply(s, map_style(style_name))
            ELSE apply(s, map_color(style_name))
    /\ Observe("style", style_name)

style(style_name) ==
    /\ s' = apply(s, map_style(style_name))
    /\ Observe("style", style_name)

\* One call on a text, with every name.
Next ==
    /\ Len(hist) < MaxCalls
    /\ \E name \in Names :
        \/ color(name)
        \/ background(name)
        \/ style(name)

Spec == Init /\ [][Next]_vars

\* Chained calls, s.color(..).background(..).style(..) in any order.
NextChain ==
    /\ Len(hist) < MaxChain
    /\ \E name \in ChainNames :
        \/ color(name)
        \/ background(name)
        \/ style(name)

SpecChain == Init /\ [][NextChain]_vars

\* =================================================================== claims
\* What the specification says of the escape codes, written from its tables:
\* a code is ESC [ <decimal number> m.
Reset == <<ESC, "[", "0", "m">>

DigitChar == <<"0", "1", "2", "3", "4", "5", "6", "7", "8", "9">>

RECURSIVE Dec(_)
Dec(n) ==
    IF n < 10 THEN <<DigitChar[n + 1]>>
    ELSE Dec(n \div 10) \o <<DigitChar[(n % 10) + 1]>>

SGR(n) == <<ESC, "[">> \o Dec(n) \o <<"m">>

Base8 == <<"black", "red", "green", "yellow", "blue", "magenta", "cyan", "white">>

Bright8 ==
    <<"bright black", "bright red", "bright green", "bright yellow",
      "bright blue", "bright magenta", "bright cyan", "bright white">>

IndexIn(seq, x) == CHOOSE i \in 1..Len(seq) : seq[i] = x

InSeq(seq, x) == \E i \in 1..Len(seq) : seq[i] = x

Recognized17 == {"normal"} \cup {Base8[i] : i \in 1..8} \cup {Bright8[i] : i \in 1..8}

Recognized5 == {"normal", "bold", "faint", "italic", "underline"}

\* black..white from `dark`, bright black..bright white from `bright`.
PaletteCode(c, dark, bright) ==
    IF c = "normal" THEN SGR(0)
    ELSE IF InSeq(Base8, c) THEN SGR(dark + IndexIn(Base8, c) - 1)
    ELSE SGR(bright + IndexIn(Bright8, c) - 1)

escapeFor(c) == PaletteCode(c, 30, 90)

bgEscapeFor(b) == PaletteCode(b, 40, 100)

styleEscapeFor(st) ==
    IndexIn(<<"normal", "bold", "faint", "italic", "underline">>, st) - 1

StyleCode(st) == SGR(styleEscapeFor(st))

RecognizedBy(op) == IF op = "style" THEN Recognized5 ELSE Recognized17

IsRecognized(call) == call.name \in RecognizedBy(call.op)

EscapeOf(call) ==
    CASE call.op = "color" -> escapeFor(call.name)
      [] call.op = "background" -> bgEscapeFor(call.name)
      [] call.op = "style" -> StyleCode(call.name)

Called == hist # <<>>

Last == hist[Len(hist)]

\* C1: color(text, c) with any of the 17 recognized colour names c yields
\* escapeFor(c) ++ text ++ "\x1b[0m", escapeFor being 30..37 for black..white,
\* 90..97 for the bright variants and 0 for normal.
C1_ColorWraps ==
    (Called /\ Last.op = "color" /\ Last.name \in Recognized17)
        => s = escapeFor(Last.name) \o prev \o Reset

C1_Witness ==
    /\ Called
    /\ Last = Call("color", "bright white")
    /\ prev = <<"c", ESC>>
    /\ s = <<ESC, "[", "9", "7", "m", "c", ESC, ESC, "[", "0", "m">>

\* C2: background(text, b) with any of the 17 recognized names b yields
\* bgEscapeFor(b) ++ text ++ "\x1b[0m", bgEscapeFor being 40..47, 100..107 and
\* 0 for normal; background("colorama", "bright black") is
\* "\x1b[100mcolorama\x1b[0m".
C2_BackgroundWraps ==
    /\ (Called /\ Last.op = "background" /\ Last.name \in Recognized17)
            => s = bgEscapeFor(Last.name) \o prev \o Reset
    /\ (Called /\ Last = Call("background", "bright black") /\ prev = Colorama)
            => s = <<ESC, "[", "1", "0", "0", "m">> \o Colorama \o <<ESC, "[", "0", "m">>

C2_Witness ==
    /\ Called
    /\ Last = Call("background", "bright black")
    /\ prev = Colorama
    /\ Len(s) = 18

\* C3: style(text, st) with any of the 5 recognized style names yields
\* styleEscapeFor(st) ++ text ++ "\x1b[0m", the codes being 0..4 for normal,
\* bold, faint, italic, underline.
C3_StyleWraps ==
    (Called /\ Last.op = "style" /\ Last.name \in Recognized5)
        => s = StyleCode(Last.name) \o prev \o Reset

C3_Witness ==
    /\ Called
    /\ Last = Call("style", "underline")
    /\ prev = Colorama
    /\ s = <<ESC, "[", "4", "m">> \o Colorama \o <<ESC, "[", "0", "m">>

\* C4: with a name that is not in the table of the call's class, color,
\* background and style leave the text exactly as it was.
C4_UnknownUnchanged ==
    (Called /\ ~IsRecognized(Last)) => s = prev

C4_Witness ==
    /\ Called
    /\ Last = Call("color", "RED")
    /\ prev = Colorama
    /\ s = Colorama

\* ------------------------------------------------------------ chained calls
RECURSIVE Resets(_)
Resets(n) == IF n = 0 THEN <<>> ELSE Reset \o Resets(n - 1)

\* E_n ++ ... ++ E_1 for the calls h = <<call_1, ..., call_n>>.
RECURSIVE Escapes(_)
Escapes(h) ==
    IF h = <<>> THEN <<>>
    ELSE EscapeOf(h[Len(h)]) \o Escapes(SubSeq(h, 1, Len(h) - 1))

AllRecognized(h) == \A i \in 1..Len(h) : IsRecognized(h[i])

\* C5: n chained decorations with recognized names give
\* E_n ++ ... ++ E_1 ++ t ++ n resets; color("red").style("bold") on
\* "colorama" gives "\x1b[1m\x1b[31mcolorama\x1b[0m\x1b[0m", and
\* color("red").background("green").style("bold") gives
\* "\x1b[1m\x1b[42m\x1b[31mcolorama\x1b[0m\x1b[0m\x1b[0m".
C5_ChainNests ==
    /\ AllRecognized(hist) => s = Escapes(hist) \o orig \o Resets(Len(hist))
    /\ (orig = Colorama /\ hist = <<Call("color", "red"), Call("style", "bold")>>)
            => s = <<ESC, "[", "1", "m", ESC, "[", "3", "1", "m">> \o Colorama
                     \o <<ESC, "[", "0", "m", ESC, "[", "0", "m">>
    /\ (/\ orig = Colorama
        /\ hist = <<Call("color", "red"), Call("background", "green"),
                    Call("style", "bold")>>)
            => s = <<ESC, "[", "1", "m", ESC, "[", "4", "2", "m",
                     ESC, "[", "3", "1", "m">> \o Colorama
                     \o <<ESC, "[", "0", "m", ESC, "[", "0", "m", ESC, "[", "0", "m">>

C5_Witness ==
    /\ orig = Colorama
    /\ hist = <<Call("color", "red"), Call("background", "green"), Call("style", "bold")>>
    /\ Len(s) = 34

\* The calls h made in order on the text str.
RECURSIVE Run(_, _)
Run(str, h) ==
    IF h = <<>> THEN str
    ELSE LET call == h[Len(h)]
             before == Run(str, SubSeq(h, 1, Len(h) - 1))
         IN  CASE call.op = "color" -> apply(before, map_color(call.name))
               [] call.op = "background" -> apply(before, map_background(call.name))
               [] call.op = "style" -> apply(before, map_style(call.name))

Permutations(n) == {p \in [1..n -> 1..n] : \A i \in 1..n : \E j \in 1..n : p[j] = i}

Permuted(h, p) == [i \in 1..Len(h) |-> h[p[i]]]

Max(a, b) == IF a > b THEN a ELSE b

NumRecognized(h) == Cardinality({i \in 1..Len(h) : IsRecognized(h[i])})

\* A result read as prefix ++ text ++ run of resets, for the calls h on text t:
\* the run is one reset for each recognized name, the text is as long as t.
RunLen(h) == Len(Reset) * NumRecognized(h)

PrefixLen(r, t, h) == Max(0, Len(r) - Len(t) - RunLen(h))

PrefixOf(r, t, h) == SubSeq(r, 1, PrefixLen(r, t, h))

TextOf(r, t, h) == SubSeq(r, PrefixLen(r, t, h) + 1, PrefixLen(r, t, h) + Len(t))

TrailOf(r, t, h) == SubSeq(r, PrefixLen(r, t, h) + Len(t) + 1, Len(r))

\* The escape codes of a prefix: the pieces that end at each "m".
RECURSIVE CodesIn(_, _)
CodesIn(p, from) ==
    IF from > Len(p) THEN {}
    ELSE LET ends == {i \in from..Len(p) : p[i] = "m"}
             stop == IF ends = {} THEN Len(p)
                     ELSE CHOOSE i \in ends : \A j \in ends : i <= j
         IN  {SubSeq(p, from, stop)} \cup CodesIn(p, stop + 1)

OneOfEachClass(h) ==
    /\ Len(h) = 3
    /\ {h[i].op : i \in 1..3} = {"color", "background", "style"}

\* C6: the order of the color, background and style calls (names fixed)
\* changes only the nesting: every permutation of the three calls gives the
\* same set of escape codes in the prefix, the same text and the same
\* trailing run of resets.
C6_OrderOnlyNesting ==
    OneOfEachClass(hist) =>
        \A p \in Permutations(3) :
            LET h == Permuted(hist, p)
                r == Run(orig, h)
            IN  /\ CodesIn(PrefixOf(r, orig, h), 1) = CodesIn(PrefixOf(s, orig, hist), 1)
                /\ TextOf(r, orig, h) = orig
                /\ TextOf(s, orig, hist) = orig
                /\ TrailOf(r, orig, h) = TrailOf(s, orig, hist)
                /\ Len(r) = Len(s)

C6_Witness ==
    /\ orig = Colorama
    /\ hist = <<Call("style", "bold"), Call("color", "red"), Call("background", "green")>>
    /\ s = <<ESC, "[", "4", "2", "m", ESC, "[", "3", "1", "m", ESC, "[", "1", "m">>
             \o Colorama \o Resets(3)
    /\ s # Run(orig, <<Call("color", "red"), Call("background", "green"),
                       Call("style", "bold")>>)

\* ------------------------------------------------------------ no error kind
IsChar(x) == x \in STRING

IsString(x) ==
    /\ DOMAIN x = 1..Len(x)
    /\ \A i \in 1..Len(x) : IsChar(x[i])

IsOption(o) ==
    /\ DOMAIN o = {"some", "val"}
    /\ o.some \in BOOLEAN
    /\ IsString(o.val)

\* C7: no operation has an error outcome: each resolver answers every name
\* with a match or with no match, and color, background and style can be
\* called with every name on every text and leave a text behind, changed or not.
C7_NoErrorOutcome ==
    /\ \A name \in Names :
        /\ IsOption(map_color(name))
        /\ IsOption(map_background(name))
        /\ IsOption(map_style(name))
        /\ ENABLED color(name)
        /\ ENABLED background(name)
        /\ ENABLED style(name)
    /\ IsString(s)
    /\ Called => (s = prev \/ \E k \in 1..Len(s) : SubSeq(s, k + 1, k + Len(prev)) = prev)

C7_Witness ==
    /\ Called
    /\ Last = Call("style", "")
    /\ prev = <<ESC, ESC>>
    /\ s = prev

\* ------------------------------------------------------- one call's effect
IsDigit(x) == \E i \in 1..Len(DigitChar) : DigitChar[i] = x

\* ESC [ digits m
IsOneCode(x) ==
    /\ Len(x) >= 4
    /\ x[1] = ESC
    /\ x[2] = "["
    /\ x[Len(x)] = "m"
    /\ \A i \in 3..(Len(x) - 1) : IsDigit(x[i])

\* s is code ++ prev ++ one reset, for one escape code.
OneCodeOneReset ==
    LET k == Len(s) - Len(prev) - Len(Reset)
    IN  /\ k > 0
        /\ IsOneCode(SubSeq(s, 1, k))
        /\ SubSeq(s, k + 1, k + Len(prev)) = prev
        /\ SubSeq(s, k + Len(prev) + 1, Len(s)) = Reset

\* s is prev ++ one reset, nothing prepended.
OnlyOneReset == s = prev \o Reset

\* C8, as the specification states it: every decoration call, whatever the
\* name, appends exactly one reset, and on a match prepends exactly one code.
C8_Original ==
    Called => IF IsRecognized(Last) THEN OneCodeOneReset ELSE OnlyOneReset

\* C8, amended: a call with a recognized name prepends exactly one escape code
\* and appends exactly one reset; a call with any other name appends nothing
\* and prepends nothing.
C8_Amended ==
    Called => IF IsRecognized(Last) THEN OneCodeOneReset ELSE s = prev

C8_Witness ==
    /\ Len(hist) = 3
    /\ hist[1] = Call("color", "red")
    /\ hist[2] = Call("background", "unknown")
    /\ Last = Call("style", "normal")
    /\ orig = Colorama
    /\ prev = <<ESC, "[", "3", "1", "m">> \o Colorama \o Reset
    /\ s = Reset \o prev \o Reset

\* ---------------------------------------------------------- nesting order
\* The calls whose names were recognized: the decorations applied.
Applied == SelectSeq(hist, IsRecognized)

\* Where the text starts in s: after one code for each applied decoration.
TextStart == Len(s) - Len(orig) - Len(Reset) * Len(Applied)

\* The code that ends right before the text.
EndsAtText(code) ==
    /\ TextStart >= Len(code)
    /\ SubSeq(s, TextStart - Len(code) + 1, TextStart) = code

\* The code s begins with.
StartsString(code) == SubSeq(s, 1, Len(code)) = code

\* C9, as the specification states it: of several decorations applied in
\* sequence, the escape code of the most recent one is the one next to the
\* text.
C9_Original ==
    Len(Applied) >= 2 => EndsAtText(EscapeOf(Applied[Len(Applied)]))

\* C9, amended: of several decorations applied in sequence, the escape code of
\* the most recent one is at the very start of the string, farthest from the
\* text, and the code of the first one applied is the one next to the text.
C9_Amended ==
    Len(Applied) >= 2 =>
        /\ StartsString(EscapeOf(Applied[Len(Applied)]))
        /\ EndsAtText(EscapeOf(Applied[1]))

C9_Witness ==
    /\ orig = Colorama
    /\ hist = <<Call("color", "red"), Call("style", "bold")>>
    /\ s = <<ESC, "[", "1", "m", ESC, "[", "3", "1", "m">> \o Colorama \o Resets(2)

\* ------------------------------------------------------- independent classes
StyleOnly == {"bold", "faint", "italic", "underline"}

\* C10: a name only another class recognizes is a no-op (color and background
\* for bold, faint, italic, underline; style for every colour name but
\* normal), and normal is the only name all three classes recognize, the
\* reset code in each.
C10_IndependentClasses ==
    /\ (Called /\ Last.op \in {"color", "background"} /\ Last.name \in StyleOnly)
            => s = prev
    /\ (Called /\ Last.op = "style" /\ Last.name \in Recognized17 \ {"normal"})
            => s = prev
    /\ (Called /\ Last.name = "normal") => s = Reset \o prev \o Reset
    /\ \A name \in Names :
        (map_color(name).some /\ map_background(name).some /\ map_style(name).some)
            <=> name = "normal"
    /\ map_color("normal") = Some(Reset)
    /\ map_background("normal") = Some(Reset)
    /\ map_style("normal") = Some(Reset)

C10_Witness ==
    /\ Called
    /\ Last = Call("style", "bright red")
    /\ prev = Colorama
    /\ s = prev

====
